---- MODULE Spec2Model ----
(***************************************************************************)
(* The pg_vectorize queue worker, src/src/workers/mod.rs.                  *)
(*                                                                         *)
(* run_worker reads one message from a pgmq queue with a visibility        *)
(* timeout of 180, runs execute_job on it, and deletes the message when    *)
(* the job succeeded or when the message had already been read more than   *)
(* twice.  execute_job deserializes the job parameters, builds and sends   *)
(* the embedding request, pairs the result with the inputs and writes the  *)
(* pairs with one of two strategies (append: one UPDATE per record, join:  *)
(* one multi-row upsert).                                                  *)
(*                                                                         *)
(* Every await of the code is one step of the model: the queue read, the   *)
(* provider call, each SQL statement and the queue delete.  The code       *)
(* between two awaits runs inside the step that follows the first.         *)
(***************************************************************************)
EXTENDS Integers, Sequences, FiniteSets, TLC

\* ------------------------------------------------------------------ bounds
MaxWorkers == 2     \* worker instances calling run_worker on the same queue
MaxMsgs    == 1     \* messages in the queue at the start
MaxInputs  == 2     \* input records of one message
MaxEmbed   == 2     \* distinct embedding values the provider can return
MaxFaults  == 1     \* faults in one run: a failed queue read, a failed queue
                    \* delete or a killed worker process

\* ------------------------------------------------------- program constants
MaxFailedRead == 2     \* read_ct > 2
VT_none       == MaxFailedRead - MaxFailedRead   \* a read that asks for no timeout
VT            == 180   \* queue.read(queue_name, 180_i32)

\* No read counts past this: a delivery with read_ct > 2 ends with a delete, so
\* only deliveries still running, failed deletes and killed workers let the
\* count grow.
MaxReads == MaxFailedRead + MaxWorkers + MaxFaults

Workers  == 1..MaxWorkers
MsgIds   == 1..MaxMsgs
PKeys    == 1..MaxInputs
Embeds   == 1..MaxEmbed
NoMsg    == 0
NoValue  == 0

TableMethods == {"append", "join"}
Transformers == {"text-embedding-ada-002", "generic"}

\* JobMessage payloads: job_meta.params either deserializes into JobParams
\* (params_ok, and then table_method is read from it) or does not.
Payloads ==
    [params_ok : {TRUE}, transformer : Transformers,
     table_method : TableMethods, inputs : {[i \in 1..MaxInputs |-> i]}]
    \cup
    [params_ok : {FALSE}, transformer : {"generic"},
     table_method : {"join"}, inputs : {[i \in 1..MaxInputs |-> i]}]

VARIABLES
    q_present,     \* the msg_ids the queue holds
    q_read_ct,     \* the queue's read_ct of each message
    q_vt,          \* the visibility timeout running on each message (0: visible)
    payload,       \* the JobMessage of each message
    pc,            \* where each worker is inside run_worker
    msg_id,        \* run_worker's msg_id (NoMsg outside an invocation's job)
    read_ct,       \* run_worker's read_ct
    paired,        \* execute_job's paired_embeddings
    idx,           \* update_append_table's position in the embeddings
    job_success,   \* run_worker's job_success: "none", "Ok" or "Err"
    err_kind,      \* which step of execute_job failed
    ret,           \* what the latest invocation of run_worker returned
    requests,      \* the embedding requests the latest invocation built
    writes,        \* the SQL statements the latest invocation issued
    deletes,       \* the queue deletes the latest invocation issued
    append_table,  \* <schema>.<table>: primary key -> <project>_embeddings
    append_updated_at, \* <schema>.<table>: primary key -> <project>_updated_at
    join_table,    \* <schema>.<project>_embeddings: rows <<record_id, embeddings>>
    expired,       \* the visibility timeout the worker's read set has elapsed
    read_faults,   \* failed queue reads so far
    delete_faults, \* failed queue deletes so far
    crashes        \* the deliveries <<msg_id, read_ct>> held by killed workers

queue_vars  == <<q_present, q_read_ct, q_vt>>
table_vars  == <<append_table, append_updated_at, join_table>>
worker_vars == <<pc, msg_id, read_ct, paired, idx, job_success, err_kind,
                 ret, requests, writes, deletes, expired>>
fault_vars  == <<read_faults, delete_faults, crashes>>
vars == <<queue_vars, payload, worker_vars, table_vars, fault_vars>>

\* ----------------------------------------------------------------- helpers
\* serde_json::to_string(&pair.embeddings): the vector as JSON text.
to_string(e) == <<"[", e, "]">>

\* $n::vector: the database parses the text back into a vector; text that is
\* not a bracketed array is rejected.
cast_vector(s) == IF Len(s) = 3 /\ s[1] = "[" /\ s[3] = "]" THEN s[2] ELSE NoValue

\* http_handler::merge_input_output(inputs, embeddings): the i-th input's
\* primary key with the i-th embedding.
merge_input_output(inputs, embeddings) ==
    [i \in 1..Len(inputs) |-> [primary_key |-> inputs[i], embeddings |-> embeddings[i]]]

\* The request the dispatch on job_meta.transformer builds.
embedding_request(p) ==
    IF p.transformer = "text-embedding-ada-002" THEN "openai" ELSE "generic"

\* Variant of build_upsert_query: a plain INSERT, the ON CONFLICT clause left
\* out.
build_upsert_query_no_conflict(embeddings) ==
    [groups      |-> [i \in 1..Len(embeddings) |->
                         <<2 * (i - 1) + 1, 2 * (i - 1) + 2>>],
     bindings    |-> [i \in 1..Len(embeddings) |->
                         <<embeddings[i].primary_key,
                           to_string(embeddings[i].embeddings)>>],
     on_conflict |-> FALSE]

\* Variant of build_upsert_query: the value group and the binding of the first
\* pair left out (the push moved under the index > 0 test).
build_upsert_query_skip_first(embeddings) ==
    [groups      |-> [i \in 1..(Len(embeddings) - 1) |->
                         <<2 * (i - 1) + 1, 2 * (i - 1) + 2>>],
     bindings    |-> [i \in 1..(Len(embeddings) - 1) |->
                         <<embeddings[i + 1].primary_key,
                           to_string(embeddings[i + 1].embeddings)>>],
     on_conflict |-> TRUE]

\* Variant of build_upsert_query: the placeholders numbered without the
\* index, $1 and $2 in every value group.
build_upsert_query_same_placeholders(embeddings) ==
    [groups      |-> [i \in 1..Len(embeddings) |-> <<1, 2>>],
     bindings    |-> [i \in 1..Len(embeddings) |->
                         <<embeddings[i].primary_key,
                           to_string(embeddings[i].embeddings)>>],
     on_conflict |-> TRUE]

\* build_upsert_query: one value group ($2i+1, $2i+2::vector) per pair, index
\* from 0, the bindings (primary_key, serialized embedding) in input order, and
\* the ON CONFLICT (record_id) DO UPDATE clause.
build_upsert_query(embeddings) ==
    [groups      |-> [i \in 1..Len(embeddings) |->
                         <<2 * (i - 1) + 1, 2 * (i - 1) + 2>>],
     bindings    |-> [i \in 1..Len(embeddings) |->
                         <<embeddings[i].primary_key,
                           to_string(embeddings[i].embeddings)>>],
     on_conflict |-> TRUE]

\* q.bind(record_id).bind(embeddings) for each binding: the flat list of bound
\* parameters, $1, $2, ...
bound_params(bindings) ==
    [n \in 1..(2 * Len(bindings)) |-> bindings[(n + 1) \div 2][2 - (n % 2)]]

\* The rows the INSERT carries: each value group read through its placeholders.
insert_rows(q) ==
    LET params == bound_params(q.bindings)
    IN  { <<params[q.groups[i][1]], cast_vector(params[q.groups[i][2]])>> :
              i \in 1..Len(q.groups) }

\* The database executing the INSERT: with ON CONFLICT (record_id) DO UPDATE a
\* row of the same record_id is replaced, otherwise the rows are added.
execute_upsert(table, q) ==
    LET rows == insert_rows(q)
        keys == { r[1] : r \in rows }
    IN  IF q.on_conflict
        THEN { r \in table : r[1] \notin keys } \cup rows
        ELSE table \cup rows

\* Variant of execute_update: the UPDATE without its WHERE clause.
execute_update_all_rows(table, embedding, primary_key) ==
    [k \in DOMAIN table |-> cast_vector(embedding)]

\* The database executing one UPDATE ... SET <project>_embeddings = $1::vector
\* WHERE <pkey> = $2: the row of that key gets the vector.
execute_update(table, embedding, primary_key) ==
    IF primary_key \in DOMAIN table
    THEN [table EXCEPT ![primary_key] = cast_vector(embedding)]
    ELSE table

\* <project>_updated_at = (NOW() at time zone 'utc') in the same UPDATE: the
\* row's time of update moves on with every statement that updates it.  The
\* time is kept as the number of the update among the updates of the row.
execute_update_at(stamps, primary_key) ==
    IF primary_key \in DOMAIN stamps
    THEN [stamps EXCEPT ![primary_key] = @ + 1]
    ELSE stamps

\* Variants of delete_it with one slip each.
delete_it_always(success, ct) == TRUE

delete_it_late(success, ct) ==
    IF success = "Ok" THEN TRUE ELSE ct > MaxFailedRead + 1

delete_it_limit_only(success, ct) == ct > MaxFailedRead

delete_it_third_only(success, ct) ==
    IF success = "Ok" THEN TRUE ELSE ct = MaxFailedRead + 1

delete_it_success_only(success, ct) == success = "Ok"

\* let delete_it = if job_success.is_ok() { true } else { read_ct > 2 };
delete_it(success, ct) ==
    IF success = "Ok" THEN TRUE ELSE ct > MaxFailedRead

\* ------------------------------------------------------------------- Init
Init ==
    /\ q_present = MsgIds
    /\ q_read_ct = [m \in MsgIds |-> 0]
    /\ q_vt = [m \in MsgIds |-> 0]
    /\ payload \in [MsgIds -> Payloads]
    /\ pc = [w \in Workers |-> "idle"]
    /\ msg_id = [w \in Workers |-> NoMsg]
    /\ read_ct = [w \in Workers |-> 0]
    /\ paired = [w \in Workers |-> <<>>]
    /\ idx = [w \in Workers |-> 0]
    /\ job_success = [w \in Workers |-> "none"]
    /\ err_kind = [w \in Workers |-> "none"]
    /\ ret = [w \in Workers |-> "none"]
    /\ requests = [w \in Workers |-> <<>>]
    /\ writes = [w \in Workers |-> <<>>]
    /\ deletes = [w \in Workers |-> <<>>]
    /\ append_table = [k \in PKeys |-> NoValue]
    /\ append_updated_at = [k \in PKeys |-> NoValue]
    /\ join_table = {}
    /\ expired = [w \in Workers |-> FALSE]
    /\ read_faults = 0
    /\ delete_faults = 0
    /\ crashes = <<>>

\* ------------------------------------------------------------- run_worker
\* A new invocation of run_worker starts with nothing sent, written or deleted.
fresh_invocation(w) ==
    /\ paired' = [paired EXCEPT ![w] = <<>>]
    /\ idx' = [idx EXCEPT ![w] = 0]
    /\ job_success' = [job_success EXCEPT ![w] = "none"]
    /\ err_kind' = [err_kind EXCEPT ![w] = "none"]
    /\ requests' = [requests EXCEPT ![w] = <<>>]
    /\ writes' = [writes EXCEPT ![w] = <<>>]
    /\ deletes' = [deletes EXCEPT ![w] = <<>>]
    /\ expired' = [expired EXCEPT ![w] = FALSE]

\* The messages queue.read can return: in the queue and visible.
visible == { m \in q_present : q_vt[m] = 0 }

\* The queue can fail a call, and a worker can be killed, while the run has
\* faults left.
can_fail == read_faults + delete_faults + Len(crashes) < MaxFaults

\* Variants of read_return: a read error swallowed, an empty read reported
\* as progress.
read_return_swallow(outcome) == "OkNone"

read_return_progress(outcome) ==
    IF outcome = "None" THEN "OkSome" ELSE "Err"

\* What run_worker returns when the read gave no message: Ok(None) for
\* Ok(None), Err("failed to read message") for Err(e).
read_return(outcome) ==
    IF outcome = "None" THEN "OkNone" ELSE "Err"

\* Variant of dispose_return: the delete's error returned with ?.
dispose_return_propagate(success, delete_result) ==
    IF delete_result = "Err" THEN "Err" ELSE "OkSome"

\* What run_worker returns after a message was read: Ok(Some(())).
dispose_return(success, delete_result) == "OkSome"

\* Variant of run_worker_read_some: the message taken out of the queue by the
\* read (a pop) instead of hidden for the visibility timeout.
run_worker_read_pop(w, m) ==
    /\ pc[w] = "idle"
    /\ m \in visible
    /\ q_read_ct[m] < MaxReads
    /\ q_read_ct' = [q_read_ct EXCEPT ![m] = @ + 1]
    /\ q_present' = q_present \ {m}
    /\ msg_id' = [msg_id EXCEPT ![w] = m]
    /\ read_ct' = [read_ct EXCEPT ![w] = q_read_ct[m] + 1]
    /\ pc' = [pc EXCEPT ![w] = "execute_job"]
    /\ ret' = [ret EXCEPT ![w] = "none"]
    /\ fresh_invocation(w)
    /\ UNCHANGED <<q_vt, payload, table_vars, fault_vars>>

\* queue.read returns Ok(Some(msg)): the queue counts the read and hides the
\* message for the visibility timeout; run_worker keeps msg_id and read_ct.
run_worker_read_some(w, m) ==
    /\ pc[w] = "idle"
    /\ m \in visible
    /\ q_read_ct[m] < MaxReads
    /\ q_read_ct' = [q_read_ct EXCEPT ![m] = @ + 1]
    /\ q_vt' = [q_vt EXCEPT ![m] = VT]
    /\ msg_id' = [msg_id EXCEPT ![w] = m]
    /\ read_ct' = [read_ct EXCEPT ![w] = q_read_ct[m] + 1]
    /\ pc' = [pc EXCEPT ![w] = "execute_job"]
    /\ ret' = [ret EXCEPT ![w] = "none"]
    /\ fresh_invocation(w)
    /\ UNCHANGED <<q_present, payload, table_vars, fault_vars>>

\* queue.read returns Ok(None): return Ok(None).
run_worker_read_none(w) ==
    /\ pc[w] = "idle"
    /\ visible = {}
    /\ msg_id' = [msg_id EXCEPT ![w] = NoMsg]
    /\ read_ct' = [read_ct EXCEPT ![w] = 0]
    /\ ret' = [ret EXCEPT ![w] = read_return("None")]
    /\ fresh_invocation(w)
    /\ UNCHANGED <<queue_vars, payload, pc, table_vars, fault_vars>>

\* queue.read returns Err(e): return Err("failed to read message").
run_worker_read_err(w) ==
    /\ pc[w] = "idle"
    /\ can_fail
    /\ read_faults' = read_faults + 1
    /\ msg_id' = [msg_id EXCEPT ![w] = NoMsg]
    /\ read_ct' = [read_ct EXCEPT ![w] = 0]
    /\ ret' = [ret EXCEPT ![w] = read_return("Err")]
    /\ fresh_invocation(w)
    /\ UNCHANGED <<queue_vars, payload, pc, table_vars, delete_faults, crashes>>

\* execute_job returns: its result goes to run_worker's job_success, its
\* locals are dropped.
job_returns(w, result, kind) ==
    /\ job_success' = [job_success EXCEPT ![w] = result]
    /\ err_kind' = [err_kind EXCEPT ![w] = kind]
    /\ pc' = [pc EXCEPT ![w] = "dispose"]
    /\ paired' = [paired EXCEPT ![w] = <<>>]
    /\ idx' = [idx EXCEPT ![w] = 0]

\* The request log: the request kind with how far it got ("BuildErr": the
\* builder failed, "Sent", then the provider's "Ok" or "Err").
request_entry(p, result) == <<embedding_request(p), result>>

\* Variant of params_error: the parameters deserialized only where they are
\* first used, after the request was built and sent.
params_error_late(w, p) ==
    /\ job_returns(w, "Err", "params")
    /\ requests' = [requests EXCEPT ![w] = <<request_entry(p, "Ok")>>]

\* serde_json::from_value(msg.message.job_meta.params)? with an Err:
\* execute_job returns it before anything else is done.
params_error(w, p) ==
    /\ job_returns(w, "Err", "params")
    /\ UNCHANGED requests

\* execute_job up to the provider call: deserialize job_meta.params, build the
\* request by transformer, send it.
execute_job_begin(w) ==
    /\ pc[w] = "execute_job"
    /\ LET p == payload[msg_id[w]]
       IN  IF ~p.params_ok
           THEN params_error(w, p)
           ELSE \/ /\ job_returns(w, "Err", "request")
                   /\ requests' = [requests EXCEPT ![w] = <<request_entry(p, "BuildErr")>>]
                \/ /\ requests' = [requests EXCEPT ![w] = <<request_entry(p, "Sent")>>]
                   /\ pc' = [pc EXCEPT ![w] = "provider"]
                   /\ UNCHANGED <<job_success, err_kind, paired, idx>>
    /\ UNCHANGED <<queue_vars, payload, msg_id, read_ct, ret, writes, deletes,
                   expired, table_vars, fault_vars>>

\* Variant of select_strategy: the paired embeddings dropped and success
\* reported without a write.
select_strategy_no_write(w, p, pairs) ==
    job_returns(w, "Ok", "none")

\* Variant of select_strategy: the arms of the match on table_method swapped.
select_strategy_swapped(w, p, pairs) ==
    IF p.table_method = "join"
    THEN IF Len(pairs) = 0
         THEN job_returns(w, "Ok", "none")
         ELSE /\ pc' = [pc EXCEPT ![w] = "append"]
              /\ paired' = [paired EXCEPT ![w] = pairs]
              /\ idx' = [idx EXCEPT ![w] = 1]
              /\ UNCHANGED <<job_success, err_kind>>
    ELSE /\ pc' = [pc EXCEPT ![w] = "join"]
         /\ paired' = [paired EXCEPT ![w] = pairs]
         /\ UNCHANGED <<idx, job_success, err_kind>>

\* The strategy execute_job selects by job_params.table_method, entered with
\* the paired embeddings.
select_strategy(w, p, pairs) ==
    IF p.table_method = "append"
    THEN IF Len(pairs) = 0
         THEN job_returns(w, "Ok", "none")
         ELSE /\ pc' = [pc EXCEPT ![w] = "append"]
              /\ paired' = [paired EXCEPT ![w] = pairs]
              /\ idx' = [idx EXCEPT ![w] = 1]
              /\ UNCHANGED <<job_success, err_kind>>
    ELSE /\ pc' = [pc EXCEPT ![w] = "join"]
         /\ paired' = [paired EXCEPT ![w] = pairs]
         /\ UNCHANGED <<idx, job_success, err_kind>>

\* What openai_embedding_request can return for the inputs: one vector per
\* input, in input order.
provider_responses(inputs) ==
    { [i \in 1..Len(inputs) |-> e] : e \in Embeds }

\* Variant of provider_error: the error replaced by an empty result
\* (unwrap_or_default) and the job carried on.
provider_error_unwrapped(w, p) ==
    select_strategy(w, p, <<>>)

\* openai_embedding_request(...).await? with an Err: execute_job returns it.
provider_error(w, p) ==
    job_returns(w, "Err", "provider")

\* openai_embedding_request returns: an error ends the job, embeddings are
\* merged with the inputs and handed to the selected strategy.
execute_job_provider(w) ==
    /\ pc[w] = "provider"
    /\ LET p == payload[msg_id[w]]
       IN  \/ /\ requests' = [requests EXCEPT ![w] = <<request_entry(p, "Err")>>]
              /\ provider_error(w, p)
           \/ /\ requests' = [requests EXCEPT ![w] = <<request_entry(p, "Ok")>>]
              /\ \E embeddings \in provider_responses(p.inputs) :
                    select_strategy(w, p, merge_input_output(p.inputs, embeddings))
    /\ UNCHANGED <<queue_vars, payload, msg_id, read_ct, ret, writes, deletes,
                   expired, table_vars, fault_vars>>

\* The statement log: the statement, what it carries and how it ended.
update_entry(embed, embedding, result) ==
    <<"UPDATE", embed.primary_key, embedding, result>>

insert_entry(q, result) == <<"INSERT", q, result>>

\* The for loop of update_append_table after the record at idx: the next
\* record, or Ok(()) after the last.
update_next(w) ==
    IF idx[w] = Len(paired[w])
    THEN job_returns(w, "Ok", "none")
    ELSE /\ idx' = [idx EXCEPT ![w] = @ + 1]
         /\ UNCHANGED <<pc, job_success, err_kind, paired>>

\* Variant of update_error: the failed UPDATE logged and the loop carried on.
update_error_continue(w) ==
    update_next(w)

\* .execute(pool).await? with an Err: update_append_table returns it at once.
update_error(w) ==
    job_returns(w, "Err", "write")

\* One iteration of update_append_table's loop: the UPDATE of the record at
\* idx; its error is returned at once (the ? after .await).
update_append_table(w) ==
    /\ pc[w] = "append"
    /\ LET embed == paired[w][idx[w]]
           embedding == to_string(embed.embeddings)
       IN  \/ /\ writes' = [writes EXCEPT ![w] =
                               Append(@, update_entry(embed, embedding, "Ok"))]
              /\ append_table' = execute_update(append_table, embedding, embed.primary_key)
              /\ append_updated_at' = execute_update_at(append_updated_at, embed.primary_key)
              /\ update_next(w)
           \/ /\ writes' = [writes EXCEPT ![w] =
                               Append(@, update_entry(embed, embedding, "Err"))]
              /\ update_error(w)
              /\ UNCHANGED <<append_table, append_updated_at>>
    /\ UNCHANGED <<queue_vars, payload, msg_id, read_ct, ret, requests, deletes,
                   expired, join_table, fault_vars>>

\* upsert_embedding_table: build the query, bind, execute it as one statement.
upsert_embedding_table(w) ==
    /\ pc[w] = "join"
    /\ LET q == build_upsert_query(paired[w])
       IN  \/ /\ writes' = [writes EXCEPT ![w] = Append(@, insert_entry(q, "Ok"))]
              /\ join_table' = execute_upsert(join_table, q)
              /\ job_returns(w, "Ok", "none")
           \/ /\ writes' = [writes EXCEPT ![w] = Append(@, insert_entry(q, "Err"))]
              /\ job_returns(w, "Err", "write")
              /\ UNCHANGED join_table
    /\ UNCHANGED <<queue_vars, payload, msg_id, read_ct, ret, requests, deletes,
                   expired, append_table, append_updated_at, fault_vars>>

\* Variant of delete_target: read_ct passed where msg_id belongs.
delete_target_read_ct(w) == read_ct[w]

\* The message id run_worker passes to queue.delete: the msg_id of the message
\* it read.
delete_target(w) == msg_id[w]

\* queue.delete(queue_name, msg_id) returns: Ok removes the message (one that
\* is gone already stays gone), Err leaves the queue as it is.
queue_delete(w, result) ==
    /\ deletes' = [deletes EXCEPT ![w] = Append(@, <<delete_target(w), result>>)]
    /\ IF result = "Ok"
       THEN /\ q_present' = q_present \ {delete_target(w)}
            /\ q_vt' = [m \in DOMAIN q_vt |->
                           IF m = delete_target(w) THEN 0 ELSE q_vt[m]]
            /\ UNCHANGED delete_faults
       ELSE /\ can_fail
            /\ delete_faults' = delete_faults + 1
            /\ UNCHANGED <<q_present, q_vt>>

\* run_worker after execute_job: decide delete_it, delete, return Ok(Some(())).
\* A failed delete is logged and nothing else.
run_worker_dispose(w) ==
    /\ pc[w] = "dispose"
    /\ \E result \in {"Ok", "Err", "NotCalled"} :
          /\ IF delete_it(job_success[w], read_ct[w])
             THEN /\ result # "NotCalled"
                  /\ queue_delete(w, result)
             ELSE /\ result = "NotCalled"
                  /\ UNCHANGED <<q_present, q_vt, deletes, delete_faults>>
          /\ ret' = [ret EXCEPT ![w] = dispose_return(job_success[w], result)]
    /\ pc' = [pc EXCEPT ![w] = "idle"]
    /\ UNCHANGED <<q_read_ct, payload, msg_id, read_ct, paired, idx, job_success,
                   err_kind, requests, writes, expired, table_vars, read_faults,
                   crashes>>

\* The visibility timeout of a message elapses: it is visible again, and the
\* timeout of the worker that read it last is over.
visibility_timeout(m) ==
    /\ m \in q_present
    /\ q_vt[m] > 0
    /\ q_vt' = [q_vt EXCEPT ![m] = 0]
    /\ expired' = [w \in Workers |->
                      IF pc[w] # "idle" /\ msg_id[w] = m THEN TRUE ELSE expired[w]]
    /\ UNCHANGED <<q_present, q_read_ct, payload, pc, msg_id, read_ct, paired, idx,
                   job_success, err_kind, ret, requests, writes, deletes,
                   table_vars, fault_vars>>

\* The worker process is killed inside run_worker, after queue.read returned
\* the message and before the delete: the invocation ends without a return
\* value, its locals are gone, what it wrote stays, and the worker is started
\* again.
crash(w) ==
    /\ pc[w] # "idle"
    /\ can_fail
    /\ crashes' = Append(crashes, <<msg_id[w], read_ct[w]>>)
    /\ pc' = [pc EXCEPT ![w] = "idle"]
    /\ ret' = [ret EXCEPT ![w] = "crashed"]
    /\ paired' = [paired EXCEPT ![w] = <<>>]
    /\ idx' = [idx EXCEPT ![w] = 0]
    /\ UNCHANGED <<queue_vars, payload, msg_id, read_ct, job_success, err_kind,
                   requests, writes, deletes, expired, table_vars, read_faults,
                   delete_faults>>

\* One step of worker w.
worker_step(w) ==
    \/ \E m \in MsgIds : run_worker_read_some(w, m)
    \/ run_worker_read_none(w)
    \/ run_worker_read_err(w)
    \/ execute_job_begin(w)
    \/ execute_job_provider(w)
    \/ update_append_table(w)
    \/ upsert_embedding_table(w)
    \/ run_worker_dispose(w)

Next ==
    \/ \E w \in Workers : \E m \in MsgIds : run_worker_read_some(w, m)
    \/ \E w \in Workers : run_worker_read_none(w)
    \/ \E w \in Workers : run_worker_read_err(w)
    \/ \E w \in Workers : execute_job_begin(w)
    \/ \E w \in Workers : execute_job_provider(w)
    \/ \E w \in Workers : update_append_table(w)
    \/ \E w \in Workers : upsert_embedding_table(w)
    \/ \E w \in Workers : run_worker_dispose(w)
    \/ \E m \in MsgIds : visibility_timeout(m)

Spec == Init /\ [][Next]_vars

\* The scheduler keeps calling run_worker on every worker, every await of a
\* worker returns, and a running visibility timeout elapses.
LiveSpec ==
    /\ Spec
    /\ \A w \in Workers : WF_vars(worker_step(w))
    /\ \A m \in MsgIds : WF_vars(visibility_timeout(m))

\* Vec<PairedEmbeddings> of every length up to MaxInputs, with any primary keys
\* (also repeated ones) and any embeddings.
PairSeqs ==
    UNION { [1..n -> [primary_key : PKeys, embeddings : Embeds]] : n \in 0..MaxInputs }

\* upsert_embedding_table entered by a worker with any batch: the worker has
\* read a message of the join strategy whose inputs are the keys of the batch,
\* and execute_job has reached the write.
InitQuery ==
    \E w0 \in Workers : \E pairs \in PairSeqs : \E m \in MsgIds :
       /\ q_present = MsgIds
       /\ q_read_ct = [k \in MsgIds |-> IF k = m THEN 1 ELSE 0]
       /\ q_vt = [k \in MsgIds |-> IF k = m THEN VT ELSE 0]
       /\ payload = [k \in MsgIds |->
                        [params_ok |-> TRUE, transformer |-> "generic",
                         table_method |-> "join",
                         inputs |-> [i \in 1..Len(pairs) |-> pairs[i].primary_key]]]
       /\ pc = [w \in Workers |-> IF w = w0 THEN "join" ELSE "idle"]
       /\ msg_id = [w \in Workers |-> IF w = w0 THEN m ELSE NoMsg]
       /\ read_ct = [w \in Workers |-> IF w = w0 THEN 1 ELSE 0]
       /\ paired = [w \in Workers |-> IF w = w0 THEN pairs ELSE <<>>]
       /\ idx = [w \in Workers |-> 0]
       /\ job_success = [w \in Workers |-> "none"]
       /\ err_kind = [w \in Workers |-> "none"]
       /\ ret = [w \in Workers |-> "none"]
       /\ requests = [w \in Workers |->
                         IF w = w0 THEN <<request_entry(payload[m], "Ok")>> ELSE <<>>]
       /\ writes = [w \in Workers |-> <<>>]
       /\ deletes = [w \in Workers |-> <<>>]
       /\ append_table = [k \in PKeys |-> NoValue]
       /\ append_updated_at = [k \in PKeys |-> NoValue]
       /\ join_table = {}
       /\ expired = [w \in Workers |-> FALSE]
       /\ read_faults = 0
       /\ delete_faults = 0
       /\ crashes = <<>>

\* The write of the batch and the disposition of its message.
NextQuery ==
    \/ \E w \in Workers : upsert_embedding_table(w)
    \/ \E w \in Workers : run_worker_dispose(w)

QuerySpec == InitQuery /\ [][NextQuery]_vars

\* The messages of a queue that holds one message more than MsgIds.
SerialMsgIds == 1..(MaxMsgs + 1)

\* One worker on a queue of several messages: the state after construction with
\* the longer queue.
InitSerial ==
    /\ q_present = SerialMsgIds
    /\ q_read_ct = [m \in SerialMsgIds |-> 0]
    /\ q_vt = [m \in SerialMsgIds |-> 0]
    /\ payload \in [SerialMsgIds -> Payloads]
    /\ pc = [w \in Workers |-> "idle"]
    /\ msg_id = [w \in Workers |-> NoMsg]
    /\ read_ct = [w \in Workers |-> 0]
    /\ paired = [w \in Workers |-> <<>>]
    /\ idx = [w \in Workers |-> 0]
    /\ job_success = [w \in Workers |-> "none"]
    /\ err_kind = [w \in Workers |-> "none"]
    /\ ret = [w \in Workers |-> "none"]
    /\ requests = [w \in Workers |-> <<>>]
    /\ writes = [w \in Workers |-> <<>>]
    /\ deletes = [w \in Workers |-> <<>>]
    /\ append_table = [k \in PKeys |-> NoValue]
    /\ append_updated_at = [k \in PKeys |-> NoValue]
    /\ join_table = {}
    /\ expired = [w \in Workers |-> FALSE]
    /\ read_faults = 0
    /\ delete_faults = 0
    /\ crashes = <<>>

\* The worker that runs alone.
SerialWorker == CHOOSE w \in Workers : \A v \in Workers : w <= v

\* run_worker called again and again on one worker.
NextSerial ==
    \/ \E m \in SerialMsgIds : run_worker_read_some(SerialWorker, m)
    \/ run_worker_read_none(SerialWorker)
    \/ run_worker_read_err(SerialWorker)
    \/ execute_job_begin(SerialWorker)
    \/ execute_job_provider(SerialWorker)
    \/ update_append_table(SerialWorker)
    \/ upsert_embedding_table(SerialWorker)
    \/ run_worker_dispose(SerialWorker)
    \/ \E m \in SerialMsgIds : visibility_timeout(m)

SerialSpec == InitSerial /\ [][NextSerial]_vars

\* The worker with processes that can be killed.
NextCrash ==
    \/ Next
    \/ \E w \in Workers : crash(w)

\* Workers that can be killed and are started again, under the same scheduling
\* as LiveSpec.
CrashSpec ==
    /\ Init /\ [][NextCrash]_vars
    /\ \A w \in Workers : WF_vars(worker_step(w))
    /\ \A m \in MsgIds : WF_vars(visibility_timeout(m))

\* ----------------------------------------------------------------- claims
\* run_worker has returned Ok(Some(())) from its latest invocation.
returned(w) == pc[w] = "idle" /\ ret[w] = "OkSome"

\* The worker is inside execute_job.
executing(w) == pc[w] \in {"execute_job", "provider", "append", "join"}

\* The step in which run_worker disposes of its message and returns.
disposes(w) == pc[w] = "dispose" /\ pc'[w] = "idle"

\* What the latest invocation of run_worker on w did.
invocation(w) == <<pc[w], msg_id[w], read_ct[w], job_success[w], err_kind[w],
                   ret[w], requests[w], writes[w], deletes[w]>>

\* run_worker issued exactly one delete, for its own message, and the message
\* is out of the queue unless that delete call failed.
deleted_once(w) ==
    \E r \in {"Ok", "Err"} :
       /\ deletes'[w] = << <<msg_id[w], r>> >>
       /\ r = "Ok" => msg_id[w] \notin q_present'

\* C1: when execute_job fails on a message read with read_ct <= 2, whatever the
\* failing step, run_worker issues no delete and leaves the queue as it is: the
\* message stays for redelivery.
C1_FailedEarlyKept ==
    [][\A w \in Workers :
          (disposes(w) /\ job_success[w] = "Err" /\ read_ct[w] <= 2)
          => (deletes'[w] = <<>> /\ queue_vars' = queue_vars)]_vars

C1_Witness ==
    \E w \in Workers :
       /\ returned(w) /\ job_success[w] = "Err" /\ read_ct[w] = 2
       /\ deletes[w] = <<>> /\ msg_id[w] \in q_present

\* C2: when execute_job fails on a message read with read_ct > 2, run_worker
\* deletes the message (one delete of its msg_id, which removes it unless the
\* delete call itself fails), whichever step of the job failed.
C2_FailedLateDeleted ==
    [][\A w \in Workers :
          (disposes(w) /\ job_success[w] = "Err" /\ read_ct[w] > 2)
          => (deleted_once(w) /\ err_kind[w] \in {"params", "request", "provider", "write"})]_vars

C2_Witness ==
    \E w \in Workers :
       /\ returned(w) /\ job_success[w] = "Err" /\ err_kind[w] = "write"
       /\ read_ct[w] = 3
       /\ deletes[w] = << <<msg_id[w], "Ok">> >> /\ msg_id[w] \notin q_present

\* C3: when execute_job succeeds, run_worker deletes the message exactly once:
\* it issues one delete of its msg_id and no second one, at any read_ct.
C3_SuccessDeletedOnce ==
    [][\A w \in Workers :
          (disposes(w) /\ job_success[w] = "Ok")
          => (deleted_once(w) /\ Len(deletes'[w]) = 1)]_vars

C3_Witness ==
    \E w \in Workers :
       /\ returned(w) /\ job_success[w] = "Ok" /\ read_ct[w] = 1
       /\ writes[w] # <<>>
       /\ deletes[w] = << <<msg_id[w], "Ok">> >> /\ msg_id[w] \notin q_present

\* C4 as claimed: no message is ever read a fourth time.
C4_NoFourthRead ==
    \A m \in MsgIds : q_read_ct[m] <= 3

\* C4, amended: every delivery with read_ct >= 3 ends with one delete of the
\* message, whether the job succeeded or failed, and the message is gone when
\* that delete succeeds; a fourth or later read happens only after a delete
\* failed or while an earlier delivery with read_ct >= 3 has outlived its
\* visibility timeout without reaching its disposition.
C4_ThirdDeliveryDeletes ==
    [][/\ \A w \in Workers :
             (disposes(w) /\ read_ct[w] >= 3) => deleted_once(w)
       /\ \A m \in MsgIds :
             (q_read_ct'[m] > q_read_ct[m] /\ q_read_ct'[m] > 3)
             => \/ delete_faults > 0
                \/ \E w \in Workers :
                      /\ pc[w] # "idle" /\ msg_id[w] = m
                      /\ read_ct[w] >= 3 /\ expired[w]]_vars

C4_Witness ==
    \E w \in Workers :
       /\ returned(w) /\ read_ct[w] = 4 /\ job_success[w] = "Err"
       /\ delete_faults > 0
       /\ deletes[w] = << <<msg_id[w], "Ok">> >> /\ msg_id[w] \notin q_present

\* C5 as claimed: no two workers are inside execute_job for the same message
\* at the same time.
C5_NoConcurrentExecution ==
    \A w1, w2 \in Workers :
       (w1 # w2 /\ executing(w1) /\ executing(w2)) => msg_id[w1] # msg_id[w2]

\* C5, amended: two workers are inside execute_job for the same message at
\* the same time only when the visibility timeout of the earlier read has
\* elapsed; while it runs, the reader is alone.
C5_OverlapOnlyAfterTimeout ==
    \A w1, w2 \in Workers :
       (/\ w1 # w2 /\ executing(w1) /\ executing(w2)
        /\ msg_id[w1] = msg_id[w2] /\ read_ct[w1] <= read_ct[w2])
       => (expired[w1] /\ read_ct[w1] < read_ct[w2])

C5_Witness ==
    \E w1, w2 \in Workers :
       /\ w1 # w2 /\ executing(w1) /\ executing(w2)
       /\ msg_id[w1] = msg_id[w2] /\ expired[w1] /\ ~expired[w2]

\* C6: under fair scheduling, with transport failures that stop, every message
\* of the queue is eventually deleted, a message whose job fails on every
\* delivery included.
C6_EveryMessageDeleted ==
    \A m \in MsgIds : <>(m \notin q_present)

C6_Witness ==
    \E m \in MsgIds :
       /\ ~payload[m].params_ok /\ m \notin q_present /\ q_read_ct[m] >= 3

\* C7: a failed queue read makes run_worker return an error with no job run,
\* no request, no write and no delete, and leaves the queue and the tables as
\* they are.
C7_ReadErrorLeavesAll ==
    /\ [](\A w \in Workers :
             ret[w] = "Err"
             => /\ pc[w] = "idle" /\ job_success[w] = "none"
                /\ requests[w] = <<>> /\ writes[w] = <<>> /\ deletes[w] = <<>>)
    /\ [][read_faults' > read_faults
          => /\ queue_vars' = queue_vars /\ table_vars' = table_vars
             /\ \E w \in Workers :
                   /\ pc[w] = "idle" /\ ret'[w] = "Err"
                   /\ \A v \in Workers \ {w} : invocation(v)' = invocation(v)]_vars

C7_Witness ==
    \E w \in Workers :
       /\ ret[w] = "Err" /\ read_faults > 0 /\ q_present = MsgIds
       /\ \A m \in MsgIds : q_read_ct[m] = 0

\* C8: a queue read that finds no message makes run_worker return Ok(None),
\* which is neither Ok(Some) nor an error, with no job run, no delete and
\* nothing written.
C8_NoMessageNoProgress ==
    /\ [](\A w \in Workers :
             ret[w] = "OkNone"
             => /\ pc[w] = "idle" /\ job_success[w] = "none"
                /\ requests[w] = <<>> /\ writes[w] = <<>> /\ deletes[w] = <<>>)
    /\ [][\A w \in Workers :
             (/\ pc[w] = "idle" /\ visible = {} /\ read_faults' = read_faults
              /\ invocation(w)' # invocation(w))
             => /\ ret'[w] = "OkNone" /\ ret'[w] \notin {"OkSome", "Err"}
                /\ queue_vars' = queue_vars /\ table_vars' = table_vars]_vars

C8_Witness ==
    \E w \in Workers :
       /\ ret[w] = "OkNone" /\ msg_id[w] = NoMsg
       /\ \E m \in q_present : q_vt[m] > 0

\* C9: an invocation of run_worker that read a message returns Ok(Some(())),
\* whatever the job's outcome, the read_ct and the delete's outcome.
C9_ReadMeansProgress ==
    \A w \in Workers :
       (pc[w] = "idle" /\ msg_id[w] # NoMsg) => ret[w] = "OkSome"

C9_Witness ==
    \E w \in Workers :
       /\ returned(w) /\ job_success[w] = "Err" /\ read_ct[w] > 2
       /\ deletes[w] = << <<msg_id[w], "Err">> >>

\* C10: when the request builder or the provider call returns an error,
\* execute_job returns failure and the invocation issues no write statement of
\* either strategy; the step leaves the tables as they are.
C10_ProviderErrorNoWrite ==
    /\ [](\A w \in Workers :
             (requests[w] # <<>> /\ requests[w][1][2] \in {"BuildErr", "Err"})
             => /\ job_success[w] = "Err" /\ writes[w] = <<>>
                /\ pc[w] \in {"dispose", "idle"})
    /\ [][\A w \in Workers :
             (/\ requests'[w] # requests[w] /\ requests'[w] # <<>>
              /\ requests'[w][1][2] \in {"BuildErr", "Err"})
             => table_vars' = table_vars]_vars

C10_Witness ==
    \E w \in Workers :
       /\ returned(w) /\ requests[w] # <<>> /\ requests[w][1][2] = "Err"
       /\ job_success[w] = "Err" /\ writes[w] = <<>>

\* The rows a batch of paired embeddings stands for: record_id and vector.
batch_rows(pairs) ==
    { <<pairs[i].primary_key, pairs[i].embeddings>> : i \in 1..Len(pairs) }

\* The primary keys of a batch of paired embeddings.
batch_keys(pairs) == { pairs[i].primary_key : i \in 1..Len(pairs) }

\* The join strategy of w executes its INSERT with success in this step.
upserts(w) == pc[w] = "join" /\ job_success'[w] = "Ok"

\* Two deliveries of one message, the one to w1 before the one to w2, have
\* both run the join strategy with success.
both_upserted(w1, w2) ==
    /\ msg_id[w1] # NoMsg /\ msg_id[w1] = msg_id[w2]
    /\ read_ct[w1] < read_ct[w2]
    /\ job_success[w1] = "Ok" /\ job_success[w2] = "Ok"
    /\ Len(writes[w1]) = 1 /\ writes[w1][1][1] = "INSERT"
    /\ Len(writes[w2]) = 1 /\ writes[w2][1][1] = "INSERT"

\* C11 as stated: once two deliveries of a message to different workers have
\* both run the join strategy with success, the table holds the rows of the
\* later delivery.
C11_LaterDeliveryWins ==
    \A w1, w2 \in Workers :
       both_upserted(w1, w2) => join_table = insert_rows(writes[w2][1][2])

\* C11: the join table never holds two rows of one record_id, and every
\* successful INSERT of a run, the first or a later one of the same message, by
\* the same or another worker, leaves for each primary key of its batch exactly
\* the row with that run's embedding and leaves the other rows as they were;
\* of two deliveries the table holds the rows of the later one when the earlier
\* one ended within its visibility timeout.
C11_JoinRerunOverwrites ==
    /\ [](\A r1, r2 \in join_table : r1[1] = r2[1] => r1 = r2)
    /\ [](\A w1, w2 \in Workers :
             both_upserted(w1, w2) /\ ~expired[w1]
                => join_table = insert_rows(writes[w2][1][2]))
    /\ [][\A w \in Workers :
             upserts(w)
                => /\ batch_rows(paired[w]) \subseteq join_table'
                   /\ \A r \in join_table' :
                         IF r[1] \in batch_keys(paired[w])
                         THEN r \in batch_rows(paired[w])
                         ELSE r \in join_table]_vars

\* Two workers ran the join strategy for the same message with different
\* embeddings, and the table holds one row per primary key with the embeddings
\* of the later delivery.
C11_Witness ==
    \E w1, w2 \in Workers :
       /\ w1 # w2
       /\ both_upserted(w1, w2)
       /\ ~expired[w1]
       /\ writes[w1][1][2].bindings # writes[w2][1][2].bindings
       /\ join_table = insert_rows(writes[w2][1][2])
       /\ Cardinality(join_table) = MaxInputs

\* The append strategy of w executes the UPDATE of its current record with
\* success in this step.
updates(w) ==
    /\ pc[w] = "append"
    /\ Len(writes'[w]) = Len(writes[w]) + 1
    /\ job_success'[w] # "Err"

\* C12 as stated: an UPDATE of the append strategy that brings a row the
\* embedding the row holds already, as every UPDATE of a second run with the
\* same embeddings does, leaves all columns of the row as they were.
C12_RerunSameColumns ==
    [][\A w \in Workers :
          (updates(w)
             /\ append_table[paired[w][idx[w]].primary_key]
                   = paired[w][idx[w]].embeddings)
             => /\ append_table' = append_table
                /\ append_updated_at' = append_updated_at]_vars

\* C12: every successful UPDATE of the append strategy leaves the embedding of
\* its record in the <project>_embeddings column of the row of its primary key
\* and the other rows as they were, so a second run with the same embeddings
\* leaves the embeddings column as the first did; <project>_updated_at of the
\* row moves on with every UPDATE, also when the embedding is the same.
C12_RerunSameEmbeddings ==
    [][\A w \in Workers :
          updates(w)
             => LET embed == paired[w][idx[w]]
                IN  /\ append_table'[embed.primary_key] = embed.embeddings
                    /\ append_updated_at'[embed.primary_key]
                          > append_updated_at[embed.primary_key]
                    /\ \A k \in PKeys \ {embed.primary_key} :
                          /\ append_table'[k] = append_table[k]
                          /\ append_updated_at'[k] = append_updated_at[k]]_vars

\* Two workers ran the append strategy to the end for the same message with
\* the same embeddings: the rows hold these embeddings and the time of the
\* second update.
C12_Witness ==
    \E w1, w2 \in Workers :
       /\ w1 # w2
       /\ msg_id[w1] # NoMsg /\ msg_id[w1] = msg_id[w2]
       /\ job_success[w1] = "Ok" /\ job_success[w2] = "Ok"
       /\ Len(writes[w1]) = MaxInputs
       /\ writes[w1] = writes[w2]
       /\ \A i \in 1..MaxInputs :
             /\ writes[w1][i][1] = "UPDATE"
             /\ append_table[writes[w1][i][2]] = cast_vector(writes[w1][i][3])
             /\ append_updated_at[writes[w1][i][2]] = 2

\* The latest invocation of run_worker on w was killed while it held delivery
\* c of message m.
crashed_holding(w, m, c) ==
    pc[w] = "idle" /\ ret[w] = "crashed" /\ msg_id[w] = m /\ read_ct[w] = c

\* The message of the i-th killed delivery has been read again since.
read_again(i) == q_read_ct[crashes[i][1]] > crashes[i][2]

\* C13 as stated: after a worker was killed holding a delivery of a message,
\* the message is eventually read again.
C13_CrashedReadAgain ==
    \A i \in 1..MaxFaults :
       (Len(crashes) >= i) ~> (Len(crashes) >= i /\ read_again(i))

\* C13: a worker killed between the read and the delete has issued no delete,
\* its death leaves the queue as it is, a message leaves the queue only by the
\* delete of a disposition, and the message the killed worker held is
\* eventually read again unless a delivery of it that was running beside the
\* killed one completes and deletes it.
C13_CrashKeepsMessage ==
    /\ [](\A w \in Workers : pc[w] # "idle" \/ ret[w] = "crashed"
                                => deletes[w] = <<>>)
    /\ [][\A w \in Workers :
             (pc[w] # "idle" /\ ret'[w] = "crashed")
                => UNCHANGED <<queue_vars, deletes>>]_vars
    /\ [][\A m \in MsgIds :
             (m \in q_present /\ m \notin q_present')
                => \E w \in Workers :
                      /\ disposes(w)
                      /\ deletes'[w] = << <<m, "Ok">> >>]_vars
    /\ \A i \in 1..MaxFaults :
          (Len(crashes) >= i)
             ~> (Len(crashes) >= i
                   /\ (read_again(i) \/ crashes[i][1] \notin q_present))

\* A worker was killed holding the first delivery of a message, and the
\* message, still in the queue, has been read again by the other worker.
C13_Witness ==
    \E w1, w2 \in Workers :
       /\ w1 # w2
       /\ crashed_holding(w1, msg_id[w1], 1)
       /\ msg_id[w1] \in q_present
       /\ pc[w2] = "execute_job"
       /\ msg_id[w2] = msg_id[w1]
       /\ read_ct[w2] = 2

\* The statements the invocation of w issued cover every input record of its
\* message, by the strategy of the message: one UPDATE per record in input
\* order, or one INSERT with a value group and a binding per record.
all_written(w) ==
    LET p == payload[msg_id[w]]
    IN  IF p.table_method = "append"
        THEN /\ Len(writes[w]) = Len(p.inputs)
             /\ \A i \in 1..Len(p.inputs) :
                   /\ writes[w][i][1] = "UPDATE"
                   /\ writes[w][i][2] = p.inputs[i]
                   /\ writes[w][i][4] = "Ok"
        ELSE /\ Len(writes[w]) = 1
             /\ writes[w][1][1] = "INSERT"
             /\ writes[w][1][3] = "Ok"
             /\ Len(writes[w][1][2].groups) = Len(p.inputs)
             /\ Len(writes[w][1][2].bindings) = Len(p.inputs)
             /\ \A i \in 1..Len(p.inputs) :
                   writes[w][1][2].bindings[i][1] = p.inputs[i]

\* C14: run_worker issues a delete only when execute_job returned success or
\* read_ct > 2, a message leaves the queue only in such a step, and when the
\* delete follows a successful job every statement of the selected strategy
\* was executed, for every paired embedding, before the delete is issued.
C14_DeleteOnlyAfterWrites ==
    /\ [][\A w \in Workers :
             (disposes(w) /\ deletes'[w] # <<>>)
                => /\ job_success[w] = "Ok" \/ read_ct[w] > 2
                   /\ job_success[w] = "Ok" => all_written(w)]_vars
    /\ [][q_present' # q_present
             => \E w \in Workers :
                   /\ disposes(w)
                   /\ deletes'[w] # <<>>
                   /\ q_present' = q_present \ {msg_id[w]}]_vars
    /\ [](\A w \in Workers :
             job_success[w] = "Ok" /\ msg_id[w] # NoMsg => all_written(w))

\* A second delivery succeeded with the append strategy and its message was
\* deleted after both records were updated.
C14_Witness ==
    \E w \in Workers :
       /\ returned(w)
       /\ read_ct[w] = 2
       /\ job_success[w] = "Ok"
       /\ payload[msg_id[w]].table_method = "append"
       /\ Len(writes[w]) = MaxInputs
       /\ deletes[w] = << <<msg_id[w], "Ok">> >>
       /\ msg_id[w] \notin q_present

\* The join strategy of w executes its statement in this step, with success
\* or not.
upsert_returns(w) == pc[w] = "join" /\ pc'[w] # "join"

\* C15: the join strategy writes with one statement, in one step: either
\* execute_job succeeds and the table holds the row of every pair of the batch,
\* or it fails and the table is as it was before the statement; the step issues
\* exactly one INSERT and no run issues a second one.
C15_JoinAllOrNothing ==
    /\ [][\A w \in Workers :
             upsert_returns(w)
                => /\ Len(writes[w]) = 0 /\ Len(writes'[w]) = 1
                   /\ \/ /\ job_success'[w] = "Ok"
                         /\ batch_rows(paired[w]) \subseteq join_table'
                      \/ /\ job_success'[w] = "Err"
                         /\ join_table' = join_table]_vars
    /\ [][join_table' # join_table
             => \E w \in Workers : upsert_returns(w) /\ job_success'[w] = "Ok"]_vars

\* An INSERT of the join strategy failed on a table that another run had
\* filled: the rows of that run are all there, none of the failed batch is.
C15_Witness ==
    \E w \in Workers :
       /\ pc[w] = "dispose"
       /\ job_success[w] = "Err" /\ err_kind[w] = "write"
       /\ Len(writes[w]) = 1 /\ writes[w][1][1] = "INSERT"
       /\ Cardinality(join_table) = MaxInputs
       /\ insert_rows(writes[w][1][2]) \cap join_table = {}

\* The append strategy of w issues the UPDATE of its current record in this
\* step.
update_issued(w) == pc[w] = "append" /\ Len(writes'[w]) = Len(writes[w]) + 1

placeholders(q) ==
    [n \in 1..(2 * Len(q.groups)) |-> q.groups[(n + 1) \div 2][2 - (n % 2)]]

\* C17: for n paired embeddings upsert_embedding_table issues one INSERT, built
\* by build_upsert_query, with n value groups and 2n bound parameters; group i
\* (from 0) has the placeholders 2i+1 and 2i+2, so the placeholders are 1..2n
\* in order; the bindings are the primary key and the serialized embedding of
\* each pair in input order; and the statement has the ON CONFLICT (record_id)
\* DO UPDATE clause.
C17_UpsertQueryShape ==
    [][\A w \in Workers :
          (pc[w] = "join" /\ writes'[w] # writes[w])
             => LET n      == Len(paired[w])
                    q      == writes'[w][1][2]
                    params == bound_params(q.bindings)
                IN  /\ Len(writes'[w]) = 1
                    /\ writes'[w][1][1] = "INSERT"
                    /\ Len(q.groups) = n
                    /\ Len(params) = 2 * n
                    /\ \A i \in 0..(n - 1) :
                          q.groups[i + 1] = <<2 * i + 1, 2 * i + 2>>
                    /\ placeholders(q) = [k \in 1..(2 * n) |-> k]
                    /\ Len(q.bindings) = n
                    /\ \A i \in 1..n :
                          /\ q.bindings[i][1] = paired[w][i].primary_key
                          /\ q.bindings[i][2] = to_string(paired[w][i].embeddings)
                          /\ params[2 * i - 1] = paired[w][i].primary_key
                          /\ params[2 * i] = to_string(paired[w][i].embeddings)
                    /\ q.on_conflict]_vars

\* A batch of two pairs with different primary keys and different embeddings was
\* built into one INSERT with two value groups and four bound parameters.
C17_Witness ==
    \E w \in Workers :
       /\ Len(writes[w]) = 1
       /\ writes[w][1][1] = "INSERT"
       /\ Len(writes[w][1][2].groups) = 2
       /\ Len(bound_params(writes[w][1][2].bindings)) = 4
       /\ writes[w][1][2].bindings[1][1] # writes[w][1][2].bindings[2][1]
       /\ writes[w][1][2].bindings[1][2] # writes[w][1][2].bindings[2][2]

\* The message w holds has job parameters that do not deserialize.
malformed(w) == msg_id[w] # NoMsg /\ ~payload[msg_id[w]].params_ok

\* C18: on a message whose parameters do not deserialize execute_job fails in
\* its first step: no request is built or sent and no statement is issued, in
\* that step or later in the invocation; the disposition leaves the queue as it
\* is and deletes nothing while read_ct <= 2, and issues the one delete of the
\* message when read_ct > 2.
C18_MalformedParamsFail ==
    /\ [](\A w \in Workers :
             malformed(w)
                => /\ requests[w] = <<>> /\ writes[w] = <<>>
                   /\ pc[w] \in {"execute_job", "dispose", "idle"}
                   /\ pc[w] = "dispose"
                         => job_success[w] = "Err" /\ err_kind[w] = "params")
    /\ [][\A w \in Workers :
             (malformed(w) /\ pc[w] = "execute_job" /\ pc'[w] # "execute_job")
                => /\ pc'[w] = "dispose"
                   /\ job_success'[w] = "Err"
                   /\ UNCHANGED <<table_vars, queue_vars>>]_vars
    /\ [][\A w \in Workers :
             (malformed(w) /\ disposes(w))
                => IF read_ct[w] <= 2
                   THEN deletes'[w] = <<>> /\ UNCHANGED queue_vars
                   ELSE deleted_once(w)]_vars

\* A message with malformed parameters was kept by its first two deliveries
\* and deleted by the third, without a request or a write.
C18_Witness ==
    \E w \in Workers :
       /\ malformed(w)
       /\ returned(w)
       /\ read_ct[w] = 3
       /\ err_kind[w] = "params"
       /\ requests[w] = <<>> /\ writes[w] = <<>>
       /\ deletes[w] = << <<msg_id[w], "Ok">> >>
       /\ msg_id[w] \notin q_present
       /\ join_table = {}
       /\ \A k \in PKeys : append_table[k] = NoValue

\* The table_method of the message w holds.
table_method(w) == payload[msg_id[w]].table_method

\* C19: one execution of execute_job uses one strategy, the one its
\* table_method names: with append it issues only UPDATEs and never touches the
\* join table, with join it issues the single INSERT and never touches the
\* columns of the append table.
C19_OneStrategy ==
    /\ [](\A w \in Workers :
             msg_id[w] # NoMsg
                => /\ pc[w] = "append" => table_method(w) = "append"
                   /\ pc[w] = "join" => table_method(w) = "join"
                   /\ IF table_method(w) = "append"
                      THEN \A i \in 1..Len(writes[w]) : writes[w][i][1] = "UPDATE"
                      ELSE /\ Len(writes[w]) <= 1
                           /\ \A i \in 1..Len(writes[w]) : writes[w][i][1] = "INSERT")
    /\ [][\A w \in Workers :
             Len(writes'[w]) > Len(writes[w])
                => IF table_method(w) = "append"
                   THEN UNCHANGED join_table
                   ELSE UNCHANGED <<append_table, append_updated_at>>]_vars

\* A run of the append strategy has updated every record and the join table is
\* empty, while the other worker holds a later delivery of the same message.
C19_Witness ==
    \E w1, w2 \in Workers :
       /\ w1 # w2
       /\ msg_id[w1] # NoMsg /\ msg_id[w1] = msg_id[w2]
       /\ table_method(w1) = "append"
       /\ pc[w1] = "dispose" /\ job_success[w1] = "Ok"
       /\ Len(writes[w1]) = MaxInputs
       /\ \A i \in 1..MaxInputs : writes[w1][i][1] = "UPDATE"
       /\ join_table = {}
       /\ pc[w2] = "append"
       /\ Len(writes[w2]) = 1 /\ writes[w2][1][1] = "UPDATE"

\* C20: an invocation of run_worker reads the queue once, at its start, and
\* takes one message; it holds that message until it returns; execute_job runs
\* once (its result is set once, one request at most is sent); the invocation
\* issues at most one delete, in the disposition, after execute_job returned,
\* for the msg_id it read, and only that message can leave the queue.
C20_OneMessagePerInvocation ==
    /\ [][q_read_ct' # q_read_ct
             => \E w \in Workers : \E m \in DOMAIN q_read_ct :
                   /\ pc[w] = "idle" /\ pc'[w] = "execute_job"
                   /\ msg_id'[w] = m
                   /\ q_read_ct' = [q_read_ct EXCEPT ![m] = @ + 1]]_vars
    /\ [][\A w \in Workers :
             /\ pc[w] # "idle"
                   => /\ msg_id'[w] = msg_id[w] /\ read_ct'[w] = read_ct[w]
                      /\ pc[w] # "execute_job" => pc'[w] # "execute_job"
                      /\ job_success[w] # "none" => job_success'[w] = job_success[w]
             /\ deletes'[w] # deletes[w] /\ deletes'[w] # <<>>
                   => /\ pc[w] = "dispose" /\ pc'[w] = "idle"
                      /\ job_success[w] # "none"
                      /\ \E r \in {"Ok", "Err"} : deletes'[w] = << <<msg_id[w], r>> >>
                      /\ q_present \ q_present' \subseteq {msg_id[w]}]_vars
    /\ [](\A w \in Workers :
             /\ Len(deletes[w]) <= 1
             /\ Len(requests[w]) <= 1
             /\ pc[w] # "dispose" /\ pc[w] # "idle" => job_success[w] = "none")

\* With two messages in the queue the worker read the second, ran its job and
\* deleted it; the first, never read, is still in the queue.
C20_Witness ==
    \E w \in Workers : \E m \in DOMAIN q_read_ct :
       /\ returned(w)
       /\ msg_id[w] # m /\ msg_id[w] > m
       /\ job_success[w] = "Ok"
       /\ deletes[w] = << <<msg_id[w], "Ok">> >>
       /\ msg_id[w] \notin q_present
       /\ m \in q_present /\ q_read_ct[m] = 0

====
